---- MODULE Spec2Model ----
(***************************************************************************)
(* Model of the Micheline binary codec of src/src/lib.rs: Node::encode and *)
(* Node::from with the helpers they call (zarith integers, length-prefixed *)
(* arrays and lists, annotations, the tag dispatch).                       *)
(*                                                                         *)
(* Bytes are the integers 0..255, a buffer is a sequence of bytes.  An     *)
(* i32 is the TLA+ integer of the same value; shifts and masks are written *)
(* as floor division and modulus, which agree with two's complement.       *)
(* A panic (out-of-range index or slice, expect() on invalid UTF-8,        *)
(* arithmetic overflow when overflow checks are compiled in) is the        *)
(* outcome "panic"; `checks` says whether overflow checks are compiled in  *)
(* (debug profile) or not (release profile).                               *)
(***************************************************************************)
EXTENDS Integers, Sequences, FiniteSets, TLC

VARIABLES
    pc,         \* where the caller is: "start", "encoded", "aborted",
                \* "received", "decoded"
    tree,       \* the Node handed to encode, NoNode when bytes were received
    buffer,     \* the bytes encode returned, or the bytes received
    origin,     \* where buffer comes from: "encode", "raw", "truncated",
                \* "overrun"
    written,    \* the outcome of encode and the usize encode_to_buffer returned
    result,     \* the outcome of Node::from
    consumed    \* the byte count from_offset returned to Node::from, which
                \* drops it

vars == <<pc, tree, buffer, origin, written, result, consumed>>

(***************************************************************************)
(* Bounds of the model.                                                    *)
(***************************************************************************)
\* longest child list of a Seq or Prim drawn by Init
MaxArgs == 3
\* longest String / Bytes payload drawn at the top level
MaxStrLen == 2
\* Int nodes -IntSpan..IntSpan are drawn next to the boundary values
IntSpan == 4
\* longest raw buffer handed to Node::from
MaxRawLen == 5
\* iterations of the write_zarith loop after which it is reported as not
\* terminating (an in-range i32 needs at most 4)
ZarithFuel == 8

(***************************************************************************)
(* i32 arithmetic.                                                         *)
(***************************************************************************)
I32Max == 2147483647
I32Min == (-2147483647) - 1

\* a count larger than every buffer: the usize a negative i32 casts to
Huge == I32Max

\* x | y on i32
RECURSIVE BitOr(_, _)
BitOr(x, y) ==
    IF x = 0 THEN y
    ELSE IF y = 0 THEN x
    ELSE IF x = -1 \/ y = -1 THEN -1
    ELSE 2 * BitOr(x \div 2, y \div 2)
         + (IF x % 2 = 1 \/ y % 2 = 1 THEN 1 ELSE 0)

\* x << 1 on i32, the bit shifted out of bit 31 is lost
Shl1(x) ==
    LET u == x % 1073741824
    IN  IF (x \div 1073741824) % 2 = 1
        THEN ((2 * u - I32Max) - 1)
        ELSE 2 * u

\* x << n on i32 for 0 <= n < 32
RECURSIVE Shl(_, _)
Shl(x, n) == IF n = 0 THEN x ELSE Shl(Shl1(x), n - 1)

(***************************************************************************)
(* Nodes (enum Node<P>, lib.rs 10-17) with P = DummyPrimitive.             *)
(***************************************************************************)
DummyPrimitive == "DummyPrimitive"
NoPrim == "-"

NInt(v) ==
    [kind |-> "Int", int |-> v, bytes |-> <<>>, prim |-> NoPrim,
     args |-> <<>>, annot |-> <<>>]
NString(s) ==
    [kind |-> "String", int |-> 0, bytes |-> s, prim |-> NoPrim,
     args |-> <<>>, annot |-> <<>>]
NBytes(s) ==
    [kind |-> "Bytes", int |-> 0, bytes |-> s, prim |-> NoPrim,
     args |-> <<>>, annot |-> <<>>]
NSeq(items) ==
    [kind |-> "Seq", int |-> 0, bytes |-> <<>>, prim |-> NoPrim,
     args |-> items, annot |-> <<>>]
NPrim(p, args, annot) ==
    [kind |-> "Prim", int |-> 0, bytes |-> <<>>, prim |-> p,
     args |-> args, annot |-> annot]
NoNode ==
    [kind |-> "None", int |-> 0, bytes |-> <<>>, prim |-> NoPrim,
     args |-> <<>>, annot |-> <<>>]

(***************************************************************************)
(* Encoding.  An encoder returns [st, buf, size]: the outcome, the buffer  *)
(* after its pushes and the usize it returns.                              *)
(***************************************************************************)
EncOk(buf, size) == [st |-> "ok", buf |-> buf, size |-> size]
EncPanic(buf) == [st |-> "panic", buf |-> buf, size |-> 0]
EncDiverge(buf) == [st |-> "diverge", buf |-> buf, size |-> 0]

\* write_int_be pushing the least significant byte first
write_int_be_little_endian(buf, value) ==
    buf \o << value % 256,
              (value \div 256) % 256,
              (value \div 65536) % 256,
              (value \div 16777216) % 256 >>

write_int_be(buf, value) ==
    buf \o << (value \div 16777216) % 256,
              (value \div 65536) % 256,
              (value \div 256) % 256,
              value % 256 >>

write_int_be_into_offset(buf, value, offset) ==
    [i \in 1..Len(buf) |->
        IF i = offset + 1 THEN (value \div 16777216) % 256
        ELSE IF i = offset + 2 THEN (value \div 65536) % 256
        ELSE IF i = offset + 3 THEN (value \div 256) % 256
        ELSE IF i = offset + 4 THEN value % 256
        ELSE buf[i]]

write_array(buf, value) ==
    LET length == Len(value)
    IN  EncOk(write_int_be(buf, length) \o value, 4 + length)

\* the while loop of write_zarith
RECURSIVE write_zarith_loop(_, _, _, _)
write_zarith_loop(buf, value, size, fuel) ==
    IF value = 0 THEN EncOk(buf, size)
    ELSE IF fuel = 0 THEN EncDiverge(buf)
    ELSE LET byte == IF value > 127 THEN (value % 128) + 128
                     ELSE value % 128
         IN  write_zarith_loop(Append(buf, byte), value \div 128,
                               size + 1, fuel - 1)

\* i32::abs left out: the value itself is taken as its magnitude
I32Abs_missing(value) == value

\* i32::abs: overflows on i32::MIN, a panic with overflow checks and a
\* wrap to i32::MIN without
I32Abs(value) == IF value < 0 /\ value # I32Min THEN -value ELSE value

write_zarith(buf, value, checks) ==
    IF value = I32Min /\ checks THEN EncPanic(buf)
    ELSE
    LET sign == value < 0
        abs == I32Abs(value)
        first0 == IF abs > 63 THEN (abs % 64) + 128 ELSE abs % 64
        first == IF sign THEN first0 + 64 ELSE first0
    IN  write_zarith_loop(Append(buf, first), abs \div 64, 1, ZarithFuel)

encode_annotation_join(annot) ==
    LET RECURSIVE join(_)
        join(i) == IF i > Len(annot) THEN <<>>
                   ELSE IF i = Len(annot) THEN annot[i]
                   ELSE annot[i] \o <<32>> \o join(i + 1)
    IN  join(1)

encode_annotation(buf, annot) ==
    write_array(buf, encode_annotation_join(annot))

\* impl Encodable for DummyPrimitive (tests), encode_to_buffer
prim_encode_to_buffer(buf, prim) == EncOk(Append(buf, 0), 1)

RECURSIVE encode_to_buffer(_, _, _)
RECURSIVE write_list_loop(_, _, _, _, _)

write_list_loop(buf, values, i, size, checks) ==
    IF i > Len(values) THEN EncOk(buf, size)
    ELSE LET r == encode_to_buffer(values[i], buf, checks)
         IN  IF r.st # "ok" THEN r
             ELSE write_list_loop(r.buf, values, i + 1, size + r.size, checks)

write_list(buf, values, checks) ==
    LET size_offset == Len(buf)
        r == write_list_loop(write_int_be(buf, 0), values, 1, 0, checks)
    IN  IF r.st # "ok" THEN r
        ELSE EncOk(write_int_be_into_offset(r.buf, r.size, size_offset),
                   r.size + 4)

\* encode_primitive with the two-argument arms pushing each other's tag
PrimTag_swapped(args, annot) ==
    IF Len(args) = 0 THEN (IF annot = <<>> THEN 3 ELSE 4)
    ELSE IF Len(args) = 1 THEN (IF annot = <<>> THEN 5 ELSE 6)
    ELSE IF Len(args) = 2 THEN (IF annot = <<>> THEN 8 ELSE 7)
    ELSE 9

\* the tag encode_primitive pushes for (args, annot)
PrimTag(args, annot) ==
    IF Len(args) = 0 THEN (IF annot = <<>> THEN 3 ELSE 4)
    ELSE IF Len(args) = 1 THEN (IF annot = <<>> THEN 5 ELSE 6)
    ELSE IF Len(args) = 2 THEN (IF annot = <<>> THEN 7 ELSE 8)
    ELSE 9

encode_primitive(buf, prim, args, annot, checks) ==
    LET tag == PrimTag(args, annot)
        p == prim_encode_to_buffer(Append(buf, tag), prim)
    IN  IF tag = 9
        THEN LET l == write_list(p.buf, args, checks)
                 a == encode_annotation(l.buf, annot)
             IN  IF l.st # "ok" THEN l
                 ELSE EncOk(a.buf, p.size + l.size + a.size + 1)
        ELSE LET l == write_list_loop(p.buf, args, 1, 0, checks)
                 a == IF annot = <<>> THEN EncOk(l.buf, 0)
                      ELSE encode_annotation(l.buf, annot)
             IN  IF l.st # "ok" THEN l
                 ELSE EncOk(a.buf, p.size + l.size + a.size + 1)

encode_to_buffer(node, buf, checks) ==
    CASE node.kind = "Int" ->
            LET r == write_zarith(Append(buf, 0), node.int, checks)
            IN  IF r.st # "ok" THEN r ELSE EncOk(r.buf, r.size + 1)
      [] node.kind = "String" -> write_array(Append(buf, 1), node.bytes)
      [] node.kind = "Bytes" -> write_array(Append(buf, 10), node.bytes)
      [] node.kind = "Seq" ->
            LET r == write_list(Append(buf, 2), node.args, checks)
            IN  IF r.st # "ok" THEN r ELSE EncOk(r.buf, r.size + 1)
      [] node.kind = "Prim" ->
            encode_primitive(buf, node.prim, node.args, node.annot, checks)

\* Node::encode
encode(node, checks) == encode_to_buffer(node, <<>>, checks)

(***************************************************************************)
(* Decoding.  A reader returns [st, val, size, msg]: st is "ok" with the   *)
(* value read and the byte count returned, "err" with the Err(&str)        *)
(* message, or "panic".                                                    *)
(***************************************************************************)
DecOk(val, size) == [st |-> "ok", val |-> val, size |-> size, msg |-> ""]
DecErr(msg) == [st |-> "err", val |-> NoNode, size |-> 0, msg |-> msg]
DecPanic == [st |-> "panic", val |-> NoNode, size |-> 0, msg |-> ""]

\* a failed reader's outcome, passed on by `?` or by unwinding
Fail(r) == IF r.st = "err" THEN DecErr(r.msg) ELSE DecPanic

\* &buffer[start..], defined when start <= buffer.len()
SliceFrom(buf, start) == SubSeq(buf, start + 1, Len(buf))

\* read_int_be, defined when buffer.len() >= 4
read_int_be(buf) ==
    LET low == (buf[1] % 128) * 16777216 + buf[2] * 65536
               + buf[3] * 256 + buf[4]
    IN  IF buf[1] >= 128 THEN (low - I32Max) - 1 ELSE low

\* (size as usize) + 4 for the i32 `size` read by read_int_be: a negative
\* i32 casts to a usize above every buffer length, and -4..-1 make the
\* addition overflow
UsizePlus4(size, checks) ==
    IF size >= 0 THEN (IF size > Huge - 4 THEN DecOk(Huge, 0)
                       ELSE DecOk(size + 4, 0))
    ELSE IF size < -4 THEN DecOk(Huge, 0)
    ELSE IF checks THEN DecPanic
    ELSE DecOk(size + 4, 0)

\* String::from_utf8(..).is_ok(); the bytes >= 0x80 the model draws (0x80,
\* 0xff) never form a valid sequence
IsUtf8(bytes) == \A i \in 1..Len(bytes) : bytes[i] < 128

\* the while loop of read_zarith
RECURSIVE read_zarith_loop(_, _, _, _, _, _, _)
read_zarith_loop(buf, byte, value, shift, index, sign, checks) ==
    IF byte >= 128
    THEN IF index >= Len(buf) THEN DecPanic
         ELSE IF shift >= 32 /\ checks THEN DecPanic
         ELSE LET next == buf[index + 1]
              IN  read_zarith_loop(buf, next,
                      BitOr(value, Shl(next % 128, shift % 32)),
                      shift + 7, index + 1, sign, checks)
    ELSE IF ~sign THEN DecOk(value, index)
    ELSE IF value = I32Min THEN (IF checks THEN DecPanic
                                 ELSE DecOk(I32Min, index))
    ELSE DecOk(-value, index)

\* read_zarith starting the continuation groups at bit 7 instead of bit 6
read_zarith_shift7(buf, checks) ==
    IF Len(buf) = 0 THEN DecPanic
    ELSE LET byte == buf[1]
         IN  read_zarith_loop(buf, byte, byte % 64, 7, 1,
                              (byte \div 64) % 2 = 1, checks)

read_zarith(buf, checks) ==
    IF Len(buf) = 0 THEN DecPanic
    ELSE LET byte == buf[1]
         IN  read_zarith_loop(buf, byte, byte % 64, 6, 1,
                              (byte \div 64) % 2 = 1, checks)

read_vec(buf, checks) ==
    IF Len(buf) < 4 THEN DecPanic
    ELSE LET end == UsizePlus4(read_int_be(buf), checks)
         IN  IF end.st # "ok" THEN DecPanic
             ELSE IF end.val < 4 \/ end.val > Len(buf) THEN DecPanic
             ELSE DecOk(SubSeq(buf, 5, end.val), end.val)

\* str::split(" ") collected into a Vec<String>
RECURSIVE Split(_, _)
Split(s, cur) ==
    IF s = <<>> THEN <<cur>>
    ELSE IF Head(s) = 32 THEN <<cur>> \o Split(Tail(s), <<>>)
    ELSE Split(Tail(s), Append(cur, Head(s)))

read_annotation(buf, checks) ==
    LET r == read_vec(buf, checks)
    IN  IF r.st # "ok" THEN Fail(r)
        ELSE IF ~IsUtf8(r.val) THEN DecPanic
        ELSE DecOk(Split(r.val, <<>>), r.size)

\* impl Encodable for DummyPrimitive (tests), decode_from_buffer
prim_decode_from_buffer(buf) ==
    IF Len(buf) = 0 THEN DecPanic
    ELSE IF buf[1] # 0 THEN DecErr("Invalid DummyPrimitive")
    ELSE DecOk(DummyPrimitive, 1)

RECURSIVE from_offset(_, _, _)
RECURSIVE read_list_loop(_, _, _, _, _)

\* the while loop of read_list; limit is size + 4
read_list_loop(buf, limit, offset, items, checks) ==
    IF offset < limit
    THEN LET r == from_offset(buf, offset, checks)
         IN  IF r.st # "ok" THEN Fail(r)
             ELSE read_list_loop(buf, limit, offset + r.size,
                                 Append(items, r.val), checks)
    ELSE DecOk(items, limit)

read_list(buf, checks) ==
    IF Len(buf) < 4 THEN DecPanic
    ELSE LET limit == UsizePlus4(read_int_be(buf), checks)
         IN  IF limit.st # "ok" THEN DecPanic
             ELSE read_list_loop(buf, limit.val, 4, <<>>, checks)

\* the value a branch of from_offset returns when its last reader failed
\* or else the node it builds
from_offset(buf, offset, checks) ==
    IF offset >= Len(buf) THEN DecPanic
    ELSE
    LET tag == buf[offset + 1]
        rest == SliceFrom(buf, offset + 1)
        \* &buffer[at..] read by reader, panicking on at > len
        annot_at(at) == IF at > Len(buf) THEN DecPanic
                        ELSE read_annotation(SliceFrom(buf, at), checks)
    IN
    CASE tag = 0 ->
            LET r == read_zarith(rest, checks)
            IN  IF r.st # "ok" THEN Fail(r)
                ELSE DecOk(NInt(r.val), r.size + 1)
      [] tag = 1 ->
            LET r == read_vec(rest, checks)
            IN  IF r.st # "ok" THEN Fail(r)
                ELSE IF ~IsUtf8(r.val) THEN DecPanic
                ELSE DecOk(NString(r.val), r.size + 1)
      [] tag = 2 ->
            LET r == read_list(rest, checks)
            IN  IF r.st # "ok" THEN Fail(r)
                ELSE DecOk(NSeq(r.val), r.size + 1)
      [] tag = 3 ->
            LET p == prim_decode_from_buffer(rest)
            IN  IF p.st # "ok" THEN Fail(p)
                ELSE DecOk(NPrim(p.val, <<>>, <<>>), p.size + 1)
      [] tag = 4 ->
            LET p == prim_decode_from_buffer(rest)
                a == annot_at(offset + p.size + 1)
            IN  IF p.st # "ok" THEN Fail(p)
                ELSE IF a.st # "ok" THEN Fail(a)
                ELSE DecOk(NPrim(p.val, <<>>, a.val), p.size + a.size + 1)
      [] tag = 5 ->
            LET p == prim_decode_from_buffer(rest)
                x == from_offset(buf, offset + p.size + 1, checks)
            IN  IF p.st # "ok" THEN Fail(p)
                ELSE IF x.st # "ok" THEN Fail(x)
                ELSE DecOk(NPrim(p.val, <<x.val>>, <<>>),
                           p.size + x.size + 1)
      [] tag = 6 ->
            LET p == prim_decode_from_buffer(rest)
                x == from_offset(buf, offset + p.size + 1, checks)
                a == annot_at(offset + p.size + x.size + 1)
            IN  IF p.st # "ok" THEN Fail(p)
                ELSE IF x.st # "ok" THEN Fail(x)
                ELSE IF a.st # "ok" THEN Fail(a)
                ELSE DecOk(NPrim(p.val, <<x.val>>, a.val),
                           p.size + x.size + a.size + 1)
      [] tag = 7 ->
            LET p == prim_decode_from_buffer(rest)
                x == from_offset(buf, offset + p.size + 1, checks)
                y == from_offset(buf, offset + p.size + x.size + 1, checks)
            IN  IF p.st # "ok" THEN Fail(p)
                ELSE IF x.st # "ok" THEN Fail(x)
                ELSE IF y.st # "ok" THEN Fail(y)
                ELSE DecOk(NPrim(p.val, <<x.val, y.val>>, <<>>),
                           p.size + x.size + y.size + 1)
      [] tag = 8 ->
            LET p == prim_decode_from_buffer(rest)
                x == from_offset(buf, offset + p.size + 1, checks)
                y == from_offset(buf, offset + p.size + x.size + 1, checks)
                a == annot_at(offset + p.size + x.size + y.size + 1)
            IN  IF p.st # "ok" THEN Fail(p)
                ELSE IF x.st # "ok" THEN Fail(x)
                ELSE IF y.st # "ok" THEN Fail(y)
                ELSE IF a.st # "ok" THEN Fail(a)
                ELSE DecOk(NPrim(p.val, <<x.val, y.val>>, a.val),
                           p.size + x.size + y.size + a.size + 1)
      [] tag = 9 ->
            LET p == prim_decode_from_buffer(rest)
                l == IF offset + p.size + 1 > Len(buf) THEN DecPanic
                     ELSE read_list(SliceFrom(buf, offset + p.size + 1),
                                    checks)
                a == annot_at(offset + p.size + l.size + 1)
            IN  IF p.st # "ok" THEN Fail(p)
                ELSE IF l.st # "ok" THEN Fail(l)
                ELSE IF a.st # "ok" THEN Fail(a)
                ELSE DecOk(NPrim(p.val, l.val, a.val),
                           p.size + l.size + a.size)
      [] tag = 10 ->
            LET r == read_vec(rest, checks)
            IN  IF r.st # "ok" THEN Fail(r)
                ELSE DecOk(NBytes(r.val), r.size + 1)
      [] OTHER -> DecErr("Invalid value")

\* Node::from unwrapping the result of from_offset
from_unwrap(buf, checks) ==
    LET r == from_offset(buf, 0, checks)
    IN  IF r.st # "ok" THEN DecPanic ELSE DecOk(r.val, 0)

\* Node::from
from(buf, checks) ==
    LET r == from_offset(buf, 0, checks)
    IN  IF r.st # "ok" THEN Fail(r) ELSE DecOk(r.val, 0)

(***************************************************************************)
(* Inputs.                                                                 *)
(***************************************************************************)
\* the sequences over S of length at most n
SeqsUpTo(S, n) == UNION {[1..k -> S] : k \in 0..n}

\* "a" and "b"
AnnA == <<97>>
AnnB == <<98>>

\* annotation lists without a space in any annotation
Annots == {<<>>, <<AnnA>>, <<AnnA, AnnB>>, <<<<>>>>}

\* Int nodes: the boundary values of the zarith layout, their negations,
\* the test vectors of tests::integers and a span around zero
IntValues ==
    {0, 63, 64, 8191, 8192, 1048575, 1048576, 134217727, 134217728,
     4919, 1996, 6382179, I32Max}
    \cup {-63, -64, -8191, -8192, -1048575, -1048576, -134217727,
          -134217728, -4919, -1996, -6382179, -I32Max}
    \cup ((-IntSpan)..IntSpan)

\* String payloads (UTF-8 text, space included) and Bytes payloads
\* one payload is longer than 255 bytes, so that its length needs two bytes
Strings == SeqsUpTo({32, 97}, MaxStrLen) \cup {[i \in 1..258 |-> 97]}
Blobs == SeqsUpTo({0, 255}, MaxStrLen) \cup {[i \in 1..258 |-> 255]}

Leaves ==
    {NInt(v) : v \in IntValues \cup {I32Min}}
    \cup {NString(s) : s \in Strings}
    \cup {NBytes(s) : s \in Blobs}

\* the nodes child lists are drawn from: every kind, and every tag of Prim
ChildLeaves == {NInt(1), NInt(-64), NString(<<>>), NBytes(<<255>>)}
Children ==
    ChildLeaves
    \cup {NString(<<97>>),
          NSeq(<<>>), NSeq(<<NInt(1)>>),
          NPrim(DummyPrimitive, <<>>, <<>>),
          NPrim(DummyPrimitive, <<NInt(1)>>, <<AnnA>>),
          NPrim(DummyPrimitive, <<NInt(1), NInt(1), NInt(1)>>, <<AnnA>>)}

Lists == SeqsUpTo(Children, MaxArgs)

Trees ==
    Leaves
    \cup {NSeq(l) : l \in Lists}
    \cup {NPrim(DummyPrimitive, l, a) : l \in Lists, a \in Annots}
    \cup {NSeq(<<NInt(I32Min)>>)}

\* the bytes raw buffers are made of
RawBytes == {0, 1, 2, 3, 9, 128, 255}
RawBuffers == SeqsUpTo(RawBytes, MaxRawLen) \ {<<>>}

\* the trees whose encodings are cut short
TruncTrees ==
    (Leaves \ {NInt(I32Min)})
    \cup {NSeq(l) : l \in SeqsUpTo(ChildLeaves, MaxArgs)}
    \cup {NPrim(DummyPrimitive, l, a) :
            l \in SeqsUpTo(ChildLeaves, MaxArgs), a \in Annots}

\* the encodings of the nodes of l, one after the other
RECURSIVE Payload(_)
Payload(l) ==
    IF l = <<>> THEN <<>>
    ELSE encode(Head(l), TRUE).buf \o Payload(Tail(l))

\* the bytes of a Seq whose length field declares k bytes less than the
\* children l take, with 0 < k < the size of the last child: the last child
\* starts inside the declared payload and ends beyond it
OverrunSeq(l, k) ==
    <<2>> \o write_int_be(<<>>, Len(Payload(l)) - k) \o Payload(l)

OverrunBuffers ==
    UNION {{OverrunSeq(l, k) :
                k \in 1..(Len(encode(l[Len(l)], TRUE).buf) - 1)} :
            l \in SeqsUpTo(ChildLeaves, MaxArgs) \ {<<>>}}

(***************************************************************************)
(* The state machine: a caller encodes a tree and decodes the bytes, or    *)
(* decodes bytes it received.                                              *)
(***************************************************************************)
NoWritten == [st |-> "none", size |-> 0]
NoResult == [st |-> "none", val |-> NoNode, size |-> 0, msg |-> ""]

Init ==
    /\ written = NoWritten
    /\ result = NoResult
    /\ consumed = 0
    /\ \/ /\ pc = "start"
          /\ tree \in Trees
          /\ buffer = <<>>
          /\ origin = "encode"
       \/ /\ pc = "received"
          /\ tree = NoNode
          /\ buffer \in RawBuffers
          /\ origin = "raw"
       \/ /\ pc = "received"
          /\ tree = NoNode
          /\ \E t \in TruncTrees :
                LET whole == encode(t, TRUE).buf
                IN  \E n \in 0..(Len(whole) - 1) :
                        buffer = SubSeq(whole, 1, n)
          /\ origin = "truncated"
       \/ /\ pc = "received"
          /\ tree = NoNode
          /\ buffer \in OverrunBuffers
          /\ origin = "overrun"

\* Node::encode, built with or without overflow checks
Encode ==
    /\ pc = "start"
    /\ \E checks \in BOOLEAN :
         LET r == encode(tree, checks)
         IN  /\ written' = [st |-> r.st, size |-> r.size]
             /\ buffer' = IF r.st = "ok" THEN r.buf ELSE <<>>
             /\ pc' = IF r.st = "ok" THEN "encoded" ELSE "aborted"
    /\ UNCHANGED <<tree, origin, result, consumed>>

\* Node::from, built with or without overflow checks
Decode ==
    /\ pc \in {"encoded", "received"}
    /\ \E checks \in BOOLEAN :
         /\ result' = from(buffer, checks)
         /\ consumed' = from_offset(buffer, 0, checks).size
    /\ pc' = "decoded"
    /\ UNCHANGED <<tree, buffer, origin, written>>

Next == Encode \/ Decode

Spec == Init /\ [][Next]_vars

TypeOK ==
    /\ pc \in {"start", "encoded", "aborted", "received", "decoded"}
    /\ origin \in {"encode", "raw", "truncated", "overrun"}
    /\ consumed \in 0..Huge
    /\ written.st \in {"none", "ok", "panic", "diverge"}
    /\ result.st \in {"none", "ok", "err", "panic"}
    /\ \A i \in 1..Len(buffer) : buffer[i] \in 0..255

(***************************************************************************)
(* Properties.                                                             *)
(***************************************************************************)
\* Node::from(encode(tree)) has returned
RoundTripped == pc = "decoded" /\ origin = "encode"

\* Node::from(encode(tree)) returned Ok(tree)
RoundTripOk == result.st = "ok" /\ result.val = tree

\* C1: for every child list L, decoding the bytes of encode(Seq(L)) yields
\* exactly Seq(L), the same children in the same order.
C1_SeqRoundTrip ==
    (RoundTripped /\ tree.kind = "Seq") => RoundTripOk

\* C2: for every Prim(p, args, annots) with 0, 1, 2 or more arguments of
\* any kind and annotations that are empty (0, 1, 2 arguments) or a
\* non-empty list of strings without a space, decoding the bytes of encode
\* yields exactly Prim(p, args, annots).
C2_PrimRoundTrip ==
    (/\ RoundTripped
     /\ tree.kind = "Prim"
     /\ (tree.annot # <<>> \/ Len(tree.args) <= 2))
    => RoundTripOk

\* C3: for every integer v with -(2^31 - 1) <= v <= 2^31 - 1, decoding the
\* bytes of encode(Int(v)) yields Int(v).
C3_IntRoundTrip ==
    (RoundTripped /\ tree.kind = "Int") =>
        (result.st = "ok" /\ result.val = NInt(tree.int))

\* the largest magnitude, negated, has made the round trip
C3_Witness ==
    /\ RoundTripped
    /\ tree = NInt(-I32Max)
    /\ result.val = NInt(-I32Max)
    /\ Len(buffer) = 6

\* |v|
Magnitude(v) == IF v < 0 THEN -v ELSE v

\* the magnitude left to write after i payload bytes: 6 bits go into the
\* first byte, 7 into each later one
RECURSIVE Remaining(_, _)
Remaining(m, i) ==
    IF i = 0 THEN m
    ELSE IF i = 1 THEN m \div 64
    ELSE Remaining(m, i - 1) \div 128

\* C4: for every in-range v, encode(Int(v)) is the byte 0 followed by the
\* zarith layout: low 6 bits of |v| in bits 0-5 of the first byte, the sign
\* in bit 6, the next 7 bits of the magnitude in each later byte, bit 7 set
\* exactly when a further byte follows, ending as soon as the remaining
\* magnitude is zero; Int(0) is 00 00 and Int(0x1337) is 00 B7 4C.
C4_ZarithLayout ==
    /\ (pc # "start" /\ tree.kind = "Int" /\ tree.int # I32Min)
       => written.st = "ok"
    /\ (pc = "encoded" /\ tree.kind = "Int") =>
        LET m == Magnitude(tree.int)
            payload == Tail(buffer)
            n == Len(payload)
        IN  /\ buffer[1] = 0
            /\ n >= 1
            /\ payload[1] % 64 = m % 64
            /\ ((payload[1] \div 64) % 2 = 1) <=> (tree.int < 0)
            /\ \A i \in 2..n : payload[i] % 128 = Remaining(m, i - 1) % 128
            /\ \A i \in 1..n : (payload[i] >= 128) <=> (i < n)
            /\ Remaining(m, n) = 0
            /\ \A i \in 1..(n - 1) : Remaining(m, i) # 0
            /\ (tree.int = 0 => buffer = <<0, 0>>)
            /\ (tree.int = 4919 => buffer = <<0, 183, 76>>)

\* Int(-0x1337) has been encoded as 00 F7 4C
C4_Witness ==
    /\ pc = "encoded"
    /\ tree = NInt(-4919)
    /\ buffer = <<0, 247, 76>>

\* C5: the first byte encode emits for a Prim depends only on the number of
\* arguments and on whether the annotations are empty: 3, 4 for no
\* argument, 5, 6 for one, 7, 8 for two, 9 for three or more; Int, String,
\* Seq and Bytes emit 0, 1, 2 and 10; so the first byte is in 0..10.
C5_FirstByte ==
    (pc = "encoded") =>
        /\ buffer[1] \in 0..10
        /\ tree.kind = "Int" => buffer[1] = 0
        /\ tree.kind = "String" => buffer[1] = 1
        /\ tree.kind = "Seq" => buffer[1] = 2
        /\ tree.kind = "Bytes" => buffer[1] = 10
        /\ tree.kind = "Prim" =>
            LET n == Len(tree.args)
                empty == tree.annot = <<>>
            IN  /\ (n = 0 /\ empty) => buffer[1] = 3
                /\ (n = 0 /\ ~empty) => buffer[1] = 4
                /\ (n = 1 /\ empty) => buffer[1] = 5
                /\ (n = 1 /\ ~empty) => buffer[1] = 6
                /\ (n = 2 /\ empty) => buffer[1] = 7
                /\ (n = 2 /\ ~empty) => buffer[1] = 8
                /\ (n >= 3) => buffer[1] = 9

\* a Prim with two arguments and annotations has been encoded with tag 8
C5_Witness ==
    /\ pc = "encoded"
    /\ tree.kind = "Prim"
    /\ Len(tree.args) = 2
    /\ tree.annot # <<>>
    /\ buffer[1] = 8

\* C6: for every string or byte blob s, the empty one included, decoding
\* the bytes of encode(String(s)) yields String(s), likewise for Bytes, and
\* the encoding is the tag (1 for String, 10 for Bytes), the 4-byte
\* big-endian length of s, then the bytes of s unchanged.
C6_BlobRoundTrip ==
    (RoundTripped /\ tree.kind \in {"String", "Bytes"}) =>
        /\ RoundTripOk
        /\ Len(buffer) = 5 + Len(tree.bytes)
        /\ buffer[1] = (IF tree.kind = "String" THEN 1 ELSE 10)
        /\ buffer[2] * 16777216 + buffer[3] * 65536 + buffer[4] * 256
           + buffer[5] = Len(tree.bytes)
        /\ SubSeq(buffer, 6, Len(buffer)) = tree.bytes

\* a string whose length needs two bytes has made the round trip
C6_Witness ==
    /\ RoundTripped
    /\ tree.kind = "String"
    /\ Len(tree.bytes) > 255
    /\ buffer[4] = 1
    /\ result.val = tree

\* C7: for every Prim(p, args, []) with three or more arguments, encode
\* emits tag 9 with an annotation field of declared length zero, and
\* decoding that output yields Prim(p, args, [""]).
C7_EmptyAnnotAsymmetry ==
    (/\ RoundTripped
     /\ tree.kind = "Prim"
     /\ Len(tree.args) >= 3
     /\ tree.annot = <<>>)
    => /\ buffer[1] = 9
       /\ SubSeq(buffer, Len(buffer) - 3, Len(buffer)) = <<0, 0, 0, 0>>
       /\ result.st = "ok"
       /\ result.val = NPrim(tree.prim, tree.args, << <<>> >>)

\* C8: decoding a non-empty buffer whose first byte is not in 0..10 returns
\* the unknown-tag error, whatever bytes follow, and never aborts.
C8_UnknownTag ==
    (pc = "decoded" /\ buffer # <<>> /\ buffer[1] \notin 0..10) =>
        (result.st = "err" /\ result.msg = "Invalid value")

\* a buffer starting with 0xFF, with bytes after it, has been decoded
C8_Witness ==
    /\ pc = "decoded"
    /\ Len(buffer) > 1
    /\ buffer[1] = 255
    /\ result.st = "err"

\* C9: decoding a truncated buffer returns a TruncatedInput error and never
\* aborts.
C9_TruncatedInput ==
    (pc = "decoded" /\ origin = "truncated") =>
        (result.st = "err" /\ result.msg = "TruncatedInput")

\* node holds Int(v) somewhere
RECURSIVE HoldsInt(_, _)
HoldsInt(node, v) ==
    \/ node.kind = "Int" /\ node.int = v
    \/ \E i \in 1..Len(node.args) : HoldsInt(node.args[i], v)

\* C10: encode rejects a tree holding Int(-2^31) with an explicit
\* out-of-range outcome before producing output: no wrap, no bytes, no
\* endless loop.
C10_MinIntRejected ==
    (pc # "start" /\ origin = "encode" /\ HoldsInt(tree, I32Min)) =>
        (written.st = "out_of_range" /\ buffer = <<>>)


\* C11: for every tree t, decoding the encoding of t returns a consumed
\* byte count of one byte for the discriminant plus the sizes of the
\* sub-parts, which is the number of bytes encode wrote for t, so that a
\* node decoded after t starts at the first byte following t's encoding.
C11_ConsumedIsWritten ==
    RoundTripped => (result.st = "ok" /\ consumed = Len(buffer))


\* the 4-byte big-endian number in buf after the first `at` bytes
FieldAt(buf, at) ==
    buf[at + 1] * 16777216 + buf[at + 2] * 65536 + buf[at + 3] * 256
    + buf[at + 4]

\* C12: for every child list written by write_list (the payload of a Seq,
\* the argument list of a tag-9 Prim), the 4-byte big-endian length field
\* equals the number of bytes written for the children after it, for
\* children of every kind, String and Bytes included.
C12_ListLengthField ==
    /\ (pc = "encoded" /\ tree.kind = "Seq") =>
            FieldAt(buffer, 1) = Len(buffer) - 5
    /\ (pc = "encoded" /\ tree.kind = "Prim" /\ Len(tree.args) >= 3) =>
            FieldAt(buffer, 2) =
                Len(buffer) - 6 - (4 + Len(encode_annotation_join(tree.annot)))

\* C13: when the children of a length-prefixed list pass the declared
\* length without their cumulative byte count ever equalling it (the last
\* child extends beyond the declared payload), decode returns an error
\* instead of a list.
C13_OverrunRejected ==
    (pc = "decoded" /\ origin = "overrun") => result.st = "err"

====
